---- MODULE Spec2Model ----
(***************************************************************************)
(* Timing synchronisation and playback-progress engine of LyricSync Pro.   *)
(*                                                                         *)
(* Seven specifications share this module:                                 *)
(*   Spec          the sync editor (components/SyncMode.tsx)               *)
(*   SpecLoaded    the sync editor on a project loaded from a file, whose  *)
(*                 tracks are already partly timed (App.handleLoadProject) *)
(*   SpecEdit      the sync editor together with the structure and text    *)
(*                 edits that feed it (components/StructureMode.tsx,       *)
(*                 LyricEditor)                                            *)
(*   SpecPreview   overlap resolution, active lines, focus and anchor      *)
(*                 (components/PreviewMode.tsx)                            *)
(*   SpecResync    the preview with the edit button that reopens the sync  *)
(*                 editor (App.handleBackToSync)                           *)
(*   SpecStatus    the preview under a playback that only moves forward    *)
(*   SpecProgress  the per-character fill percentage                       *)
(*                 (components/ProgressFillText.tsx, AnimatedLyricLine)    *)
(*                                                                         *)
(* Time.  Timestamps are JavaScript numbers (seconds).  They are modelled  *)
(* as exact integers counted in units of 0.1/Scale seconds, so that 0.1 s  *)
(* is Tenth units and the linear interpolation of updateTimestamps between *)
(* two clock readings is exact for every track of at most MaxLen chars.    *)
(* Floating-point rounding is not modelled.                                *)
(*                                                                         *)
(* Indices.  Arrays are TLA+ sequences (1-based); every index the code     *)
(* names (currentLine, charIdx, adlibIndex, newIdx) keeps its 0-based      *)
(* value and is read through seq[i + 1].                                   *)
(***************************************************************************)
EXTENDS Integers, Sequences, FiniteSets, TLC

(* ----------------------------- bounds ---------------------------------- *)

\* longest text (in characters) of any track of the model
MaxLen == 3

(* ------------------------ sentinels and units -------------------------- *)

\* a timestamp that is not set: null in (number | null)[]
NULL == -1
\* a hole left by an array write past the end (undefined, which is !== null)
HOLE == -2
\* Number.POSITIVE_INFINITY / Number.NEGATIVE_INFINITY
Infinity == 1000000000
NegInfinity == -1000000000

\* the least common multiple of 1..n
LcmUpTo(n) ==
    CHOOSE m \in 1..60 :
        /\ \A k \in 1..n : m % k = 0
        /\ \A l \in 1..(m - 1) : \E k \in 1..n : l % k # 0

\* number of model time units in 0.1 s
Scale == LcmUpTo(MaxLen - 1)
Tenth == Scale
Sec(n) == 10 * n * Tenth

\* the 0.1 s lead-in of handleTargetChange and of the group jump
LeadIn == Tenth
\* the 3 s rewind of changeLine, handleReplayLine and the ad-lib rewind
Rewind == Sec(3)
\* SLIDER_MAX_VALUE
SLIDER_MAX_VALUE == 1000

(* ------------------------- generic helpers ----------------------------- *)

SetMin(S) == CHOOSE x \in S : \A y \in S : x <= y
SetMax(S) == CHOOSE x \in S : \A y \in S : x >= y
Max2(a, b) == IF a >= b THEN a ELSE b
Min2(a, b) == IF a <= b THEN a ELSE b

Range(s) == {s[i] : i \in 1..Len(s)}

\* new Array(n).fill(null)
NullArray(n) == [i \in 1..n |-> NULL]

\* mutant: the commit writes the release time over the whole track
JsArraySet_Fill(arr, i, v) == [k \in 1..Max2(Len(arr), i + 1) |-> v]

\* arr[i] = v on a JavaScript array: writing past the end extends the array
JsArraySet(arr, i, v) ==
    IF i < Len(arr) THEN [arr EXCEPT ![i + 1] = v]
    ELSE arr \o [k \in 1..(i - Len(arr)) |-> HOLE] \o <<v>>

\* the last index (0-based) holding a non-null entry, -1 when there is none
LastNonNull(time) ==
    IF \E i \in 1..Len(time) : time[i] # NULL
    THEN SetMax({i \in 1..Len(time) : time[i] # NULL}) - 1
    ELSE -1

(* --------------------- utils/projectUtils.ts --------------------------- *)

\* [...line.time, ...line.adlibs.flatMap(a => a.time)].filter(t => t !== null)
LineTimes(line) ==
    {line.time[i] : i \in {k \in 1..Len(line.time) : line.time[k] # NULL}}
    \cup UNION {
        {line.adlibs[a].time[i] :
            i \in {k \in 1..Len(line.adlibs[a].time) : line.adlibs[a].time[k] # NULL}}
        : a \in 1..Len(line.adlibs)}

\* mutant: the ad-lib tracks are left out
getLineStartTime_MainOnly(line) ==
    LET times == {line.time[i] : i \in {k \in 1..Len(line.time) : line.time[k] # NULL}}
    IN  IF times # {} THEN SetMin(times) ELSE Infinity

getLineStartTime(line) ==
    IF LineTimes(line) # {} THEN SetMin(LineTimes(line)) ELSE Infinity

\* mutant: the ad-lib tracks are left out, as in getMainLineEndTime
getLineEndTime_MainOnly(line) ==
    LET times == {line.time[i] : i \in {k \in 1..Len(line.time) : line.time[k] # NULL}}
    IN  IF times # {} THEN SetMax(times) ELSE NegInfinity

getLineEndTime(line) ==
    IF LineTimes(line) # {} THEN SetMax(LineTimes(line)) ELSE NegInfinity

(* --------------------- components/SyncMode.tsx ------------------------- *)

\* mutant: a part counts as synced only when every timestamp is set
isPartSynced_NoGaps(chars, time) ==
    \A i \in 1..Len(time) : time[i] # NULL

isPartSynced(chars, time) ==
    IF Len(chars) = 0 THEN TRUE
    ELSE LastNonNull(time) >= Len(chars) - 1

isLineFullySynced(line) ==
    /\ isPartSynced(line.chars, line.time)
    /\ \A a \in 1..Len(line.adlibs) :
          isPartSynced(line.adlibs[a].chars, line.adlibs[a].time)

\* mutant: Math.max in place of Math.min
findEarliestStartTimeForGroup_Latest(groupId, allLines) ==
    LET groupStartTimes ==
            {getLineStartTime(allLines[i]) :
                i \in {k \in 1..Len(allLines) : allLines[k].groupId = groupId}}
            \ {Infinity}
    IN  IF groupStartTimes # {} THEN SetMax(groupStartTimes) ELSE Infinity

findEarliestStartTimeForGroup(groupId, allLines) ==
    LET groupStartTimes ==
            {getLineStartTime(allLines[i]) :
                i \in {k \in 1..Len(allLines) : allLines[k].groupId = groupId}}
            \ {Infinity}
    IN  IF groupStartTimes # {} THEN SetMin(groupStartTimes) ELSE Infinity

(* ------------------------------ state ---------------------------------- *)

VARIABLES
    syncData,         \* App.tsx syncData: the project's lines (SyncLine[])
    audioTime,        \* audio.currentTime of the mounted component's <audio>
    currentLine,      \* SyncMode currentLine (0-based)
    charIdx,          \* SyncMode charIdx (0-based)
    syncTarget,       \* SyncMode syncTarget: [part, adlibIndex]
    currentTime,      \* PreviewMode currentTime, sampled once per frame
    focusLineId,      \* PreviewMode focusLineId ("" for null)
    anchorLineId,     \* PreviewMode anchorLineId ("" for null)
    activeGroupIdRef, \* PreviewMode activeGroupIdRef.current ("" for null)
    fill,             \* the props of one ProgressFillText
    op                \* the handler that ran last: [kind, arg]

vars == <<syncData, audioTime, currentLine, charIdx, syncTarget,
          currentTime, focusLineId, anchorLineId, activeGroupIdRef, fill, op>>

\* the state of the components that are not mounted
syncState == <<currentLine, charIdx, syncTarget>>
previewState == <<currentTime, focusLineId, anchorLineId, activeGroupIdRef>>

NoFill == [chars |-> <<>>, time |-> <<>>, adlibs |-> <<>>, currentTime |-> 0,
           endTimeOverride |-> NULL, isComplete |-> FALSE]

MainTarget == [part |-> "main", adlibIndex |-> -1]
AdlibTarget(k) == [part |-> "adlib", adlibIndex |-> k]

Op(kind, arg) == [kind |-> kind, arg |-> arg]

\* const lineData = syncData[currentLine]
HasLine(data, cl) == cl >= 0 /\ cl < Len(data)
LineAt(data, cl) == data[cl + 1]

\* the time array / chars of the active target of a line
TargetTime(line, target) ==
    IF target.part = "main" THEN line.time
    ELSE line.adlibs[target.adlibIndex + 1].time

activeChars(data, cl, target) ==
    IF ~HasLine(data, cl) THEN <<>>
    ELSE IF target.part = "main" THEN LineAt(data, cl).chars
    ELSE IF target.adlibIndex < Len(LineAt(data, cl).adlibs)
         THEN LineAt(data, cl).adlibs[target.adlibIndex + 1].chars
         ELSE <<>>

\* mutant: the effect does not run; the index stays where the handler left it
CharIdxEffect_NotRun(data, cl, target, old) == old

\* the effect that follows every render in which syncTarget, currentLine or
\* lineData changed: charIdx becomes the last synced index of the target
CharIdxEffect(data, cl, target, old) ==
    IF ~HasLine(data, cl) THEN old
    ELSE LET last == LastNonNull(TargetTime(LineAt(data, cl), target))
         IN  IF last = -1 THEN 0 ELSE last

\* const newIdx = numChars > 1 ? Math.round((sliderValue / 1000) * (numChars - 1)) : 0
SliderIndex(sliderValue, numChars) ==
    IF numChars > 1
    THEN (2 * sliderValue * (numChars - 1) + SLIDER_MAX_VALUE) \div (2 * SLIDER_MAX_VALUE)
    ELSE 0

\* mutant: only the entry at newIdx is written, nothing is cleared or filled
updateTimestamps_WriteOnly(timeArray, newIdx, newTime) ==
    JsArraySet(timeArray, newIdx, newTime)

\* mutant: the loop that clears the indices above newIdx is dropped
updateTimestamps_KeepFuture(timeArray, newIdx, newTime) ==
    LET set == JsArraySet(timeArray, newIdx, newTime)
        before == {i \in 0..(newIdx - 1) : set[i + 1] # NULL}
        lastSyncedIdx == IF before # {} THEN SetMax(before) ELSE -1
        lastSyncedTime == IF before # {} THEN set[lastSyncedIdx + 1] ELSE NULL
    IN  IF lastSyncedTime # NULL /\ newIdx > lastSyncedIdx + 1
        THEN [i \in 1..Len(set) |->
                IF i - 1 > lastSyncedIdx /\ i - 1 < newIdx
                THEN lastSyncedTime
                     + ((newTime - lastSyncedTime) * (i - 1 - lastSyncedIdx))
                       \div (newIdx - lastSyncedIdx)
                ELSE set[i]]
        ELSE set

\* mutant: the future is kept and the gap up to the next timestamp above newIdx
\* is interpolated as well
updateTimestamps_FillBothSides(timeArray, newIdx, newTime) ==
    LET base == updateTimestamps_KeepFuture(timeArray, newIdx, newTime)
        above == {i \in (newIdx + 1)..(Len(base) - 1) : base[i + 1] # NULL}
        nextIdx == IF above # {} THEN SetMin(above) ELSE -1
    IN  IF above # {} /\ nextIdx > newIdx + 1
        THEN [i \in 1..Len(base) |->
                IF i - 1 > newIdx /\ i - 1 < nextIdx
                THEN newTime + ((base[nextIdx + 1] - newTime) * (i - 1 - newIdx))
                               \div (nextIdx - newIdx)
                ELSE base[i]]
        ELSE base

\* mutant: the gap below newIdx is left null instead of being interpolated
updateTimestamps_NoFill(timeArray, newIdx, newTime) ==
    LET set == JsArraySet(timeArray, newIdx, newTime)
    IN  [i \in 1..Len(set) |-> IF i - 1 > newIdx THEN NULL ELSE set[i]]

updateTimestamps(timeArray, newIdx, newTime) ==
    LET set == JsArraySet(timeArray, newIdx, newTime)
        cleared == [i \in 1..Len(set) |-> IF i - 1 > newIdx THEN NULL ELSE set[i]]
        before == {i \in 0..(newIdx - 1) : cleared[i + 1] # NULL}
        lastSyncedIdx == IF before # {} THEN SetMax(before) ELSE -1
        lastSyncedTime == IF before # {} THEN cleared[lastSyncedIdx + 1] ELSE NULL
        timeDiff == newTime - lastSyncedTime
        indexDiff == newIdx - lastSyncedIdx
    IN  IF lastSyncedTime # NULL /\ newIdx > lastSyncedIdx + 1
        THEN [i \in 1..Len(cleared) |->
                IF i - 1 > lastSyncedIdx /\ i - 1 < newIdx
                THEN lastSyncedTime + (timeDiff * (i - 1 - lastSyncedIdx)) \div indexDiff
                ELSE cleared[i]]
        ELSE cleared

\* a line with the time array of `target` replaced
WithTargetTime(line, target, newTime) ==
    IF target.part = "main" THEN [line EXCEPT !.time = newTime]
    ELSE [line EXCEPT !.adlibs[target.adlibIndex + 1].time = newTime]

\* mutant: only the main track is cleared, the ad-libs keep their timestamps
ClearedLine_MainOnly(line) ==
    [line EXCEPT !.time = NullArray(Len(line.chars))]

\* mutant: each application clears only the last timestamp of the main track
ClearedLine_LastStampOnly(line) ==
    [line EXCEPT !.time =
        [i \in 1..Len(line.time) |->
            IF i - 1 = LastNonNull(line.time) THEN NULL ELSE line.time[i]]]

ClearedLine(line) ==
    [line EXCEPT !.time = NullArray(Len(line.chars)),
                 !.adlibs = [a \in 1..Len(line.adlibs) |->
                     [line.adlibs[a] EXCEPT !.time = NullArray(Len(line.adlibs[a].chars))]]]

(* ----------------------- SyncMode: the handlers ------------------------ *)

\* audio.currentTime = lineStartTime > 0.1 ? lineStartTime - 0.1 : 0, when the
\* start time is not Infinity (handleTargetChange, and the group jump)
SeekBeforeStart(startTime, audio) ==
    IF startTime # Infinity
    THEN (IF startTime > LeadIn THEN startTime - LeadIn ELSE 0)
    ELSE audio

\* audio.currentTime = Math.max(0, t - 3)
SeekRewind(t) == Max2(0, t - Rewind)

\* handleTargetChange reads syncData[currentLine] of the render it was created in
handleTargetChangeSeek(data, cl, audio) ==
    SeekBeforeStart(getLineStartTime(LineAt(data, cl)), audio)

\* mutant: the scrub is applied to the main track as well as to the target's
handleSliderInputData_AlsoMain(data, cl, target, newIdx, newTime) ==
    [data EXCEPT ![cl + 1] =
        [WithTargetTime(@, target, updateTimestamps(TargetTime(@, target), newIdx, newTime))
            EXCEPT !.time = IF target.part = "main" THEN @
                            ELSE updateTimestamps(@, Min2(newIdx, Len(@) - 1), newTime)]]

\* the setSyncData updater of handleSliderInput
handleSliderInputData(data, cl, target, newIdx, newTime) ==
    [data EXCEPT ![cl + 1] =
        WithTargetTime(@, target, updateTimestamps(TargetTime(@, target), newIdx, newTime))]

\* JSON.parse(JSON.stringify(time)): numbers and null come back as they are,
\* a hole of the array comes back as null
JsonCopyTime(time) == [k \in 1..Len(time) |-> IF time[k] = HOLE THEN NULL ELSE time[k]]

\* JSON.parse(JSON.stringify(syncData))
JsonCopy(data) ==
    [i \in 1..Len(data) |->
        [data[i] EXCEPT
            !.time = JsonCopyTime(@),
            !.adlibs = [a \in 1..Len(@) |-> [@[a] EXCEPT !.time = JsonCopyTime(@)]]]]

\* step 1 of handleSliderRelease: the write into the JSON copy of syncData
handleSliderReleaseData(data, cl, target, releaseIndex, releaseTime) ==
    \* the copy is bound to a value once
    LET nextSyncData == CHOOSE c \in {JsonCopy(data)} : TRUE
    IN  IF target.part = "main"
        THEN [nextSyncData EXCEPT ![cl + 1].time = JsArraySet(@, releaseIndex, releaseTime)]
        ELSE IF target.adlibIndex < Len(LineAt(nextSyncData, cl).adlibs)
             THEN [nextSyncData EXCEPT ![cl + 1].adlibs[target.adlibIndex + 1].time =
                                          JsArraySet(@, releaseIndex, releaseTime)]
             ELSE nextSyncData

\* const isAtEnd = releaseIndex >= activeChars.length - 1 && activeChars.length > 0
isAtEnd(releaseIndex, numChars) == releaseIndex >= numChars - 1 /\ numChars > 0

\* mutant: the ad-libs are not looked at before the line advances
firstUnsyncedAdlibIndex_None(line) == -1

\* mutant: the last unsynced ad-lib is picked instead of the first
firstUnsyncedAdlibIndex_Last(line) ==
    LET unsynced == {a \in 1..Len(line.adlibs) :
                        ~isPartSynced(line.adlibs[a].chars, line.adlibs[a].time)}
    IN  IF unsynced # {} THEN SetMax(unsynced) - 1 ELSE -1

\* lineToUpdate.adlibs.findIndex(adlib => !isPartSynced(adlib.chars, adlib.time))
firstUnsyncedAdlibIndex(line) ==
    LET unsynced == {a \in 1..Len(line.adlibs) :
                        ~isPartSynced(line.adlibs[a].chars, line.adlibs[a].time)}
    IN  IF unsynced # {} THEN SetMin(unsynced) - 1 ELSE -1

\* mutant: outside a group the playback is rewound whether or not the finished
\* line has ad-libs
AdvanceSeek_AlwaysRewind(next, cl, audio) ==
    LET currentLineData == LineAt(next, cl)
        nextLineData == LineAt(next, cl + 1)
    IN  IF currentLineData.groupId # "" /\ currentLineData.groupId = nextLineData.groupId
        THEN SeekBeforeStart(findEarliestStartTimeForGroup(currentLineData.groupId, next), audio)
        ELSE SeekRewind(audio)

\* the playback position handleSliderRelease leaves when it advances to the next line
AdvanceSeek(next, cl, audio) ==
    LET currentLineData == LineAt(next, cl)
        nextLineData == LineAt(next, cl + 1)
    IN  IF currentLineData.groupId # "" /\ currentLineData.groupId = nextLineData.groupId
        THEN SeekBeforeStart(findEarliestStartTimeForGroup(currentLineData.groupId, next), audio)
        ELSE IF Len(currentLineData.adlibs) > 0 THEN SeekRewind(audio)
        ELSE audio

\* changeLine(index, {seek: true}): the jump-back position, from the old state
changeLineSeek(data, index, audio) ==
    IF ~HasLine(data, index) THEN audio
    ELSE LET line == LineAt(data, index)
             own == getLineStartTime(line)
             groupStartTime == findEarliestStartTimeForGroup(line.groupId, data)
             jumpTime == IF line.groupId # "" /\ groupStartTime # Infinity
                            /\ (own = Infinity \/ own > groupStartTime)
                         THEN groupStartTime ELSE own
         IN  IF jumpTime # Infinity THEN SeekRewind(jumpTime) ELSE audio

\* changeLine(index, {seek: true}): the new state, the target line cleared
changeLineData(data, index) ==
    IF ~HasLine(data, index) THEN data
    ELSE [data EXCEPT ![index + 1] = ClearedLine(@)]

\* syncData.findIndex(line => !isLineFullySynced(line))
nextUnsyncedIndex(data) ==
    LET unsynced == {i \in 1..Len(data) : ~isLineFullySynced(data[i])}
    IN  IF unsynced # {} THEN SetMin(unsynced) - 1 ELSE -1

(* ------------------- the project the editor is given ------------------- *)

Alphabet == <<"a", "b", "c", "d", "e", "f", "g", "h">>
Text(n) == [i \in 1..n |-> Alphabet[((i - 1) % Len(Alphabet)) + 1]]

Adlib(id, chars) == [id |-> id, chars |-> chars, time |-> NullArray(Len(chars))]

Line(id, chars, adlibs, groupId) ==
    [id |-> id, chars |-> chars, time |-> NullArray(Len(chars)),
     adlibs |-> adlibs, groupId |-> groupId]

\* what StructureMode.handleConfirm hands to the editor for a fresh project:
\* two lines, every timestamp null
InitProjects ==
    UNION {
      { \* a long line followed by a line with two ad-libs
        << Line("L1", Text(MaxLen), <<>>, g),
           Line("L2", <<"d">>, <<Adlib("A1", <<"e">>), Adlib("A2", <<"f">>)>>, g) >>,
        \* a line with an ad-lib and an empty ad-lib "()", followed by a plain line
        << Line("L1", <<"a">>, <<Adlib("A1", <<"b">>), Adlib("A2", <<>>)>>, g),
           Line("L2", Text(2), <<>>, g) >> }
      : g \in {"", "g1"} }

\* the playback positions at which the user acts
ClockTimes == {Sec(1), Sec(4), Sec(10)}

\* the track of a saved project file (App.handleLoadProject hands its syncData
\* to the editor as it is): first and last character timed, the rest not
LoadedTrack == <<Sec(2), NULL, NULL, NULL, Sec(8)>>

\* the playback positions at which the user works on a loaded project
LoadedClock == {Sec(5), Sec(8)}

\* the first line of a project loaded from a file
LoadedLineId == "P1"

\* the playback positions at which the slider is moved or released while the
\* project `data` is edited
ScrubTimes(data) ==
    IF Len(data) > 0 /\ data[1].id = LoadedLineId THEN LoadedClock ELSE ClockTimes

\* the positions of the sync slider the user drags to
SliderValues == {0, 300, 500, 1000}

Init ==
    /\ syncData \in InitProjects
    /\ currentLine = 0
    /\ charIdx = 0
    /\ syncTarget = MainTarget
    /\ audioTime = 0
    /\ currentTime = 0 /\ focusLineId = "" /\ anchorLineId = "" /\ activeGroupIdRef = ""
    /\ fill = NoFill
    /\ op = Op("init", -1)

(* ----------------------------- actions --------------------------------- *)

\* the audio plays on, or the user seeks with AudioControls
AudioSeek(t) ==
    /\ UNCHANGED <<previewState, fill>>
    /\ t # audioTime
    /\ audioTime' = t
    /\ op' = Op("audio", -1)
    /\ UNCHANGED <<syncData, currentLine, charIdx, syncTarget>>

handleSliderInput(sliderValue) ==
    /\ UNCHANGED <<previewState, fill>>
    /\ HasLine(syncData, currentLine)
    /\ audioTime \in ScrubTimes(syncData)
    /\ LET numChars == Len(activeChars(syncData, currentLine, syncTarget))
           newIdx == SliderIndex(sliderValue, numChars)
           newTime == audioTime
           newData == handleSliderInputData(syncData, currentLine, syncTarget, newIdx, newTime)
       IN  IF numChars = 0
           THEN /\ op' = Op("scrub", -1)
                /\ UNCHANGED <<syncData, currentLine, charIdx, syncTarget, audioTime>>
           ELSE /\ syncData' = newData
                /\ charIdx' = CharIdxEffect(newData, currentLine, syncTarget, newIdx)
                /\ op' = Op("scrub", newIdx)
                /\ UNCHANGED <<currentLine, syncTarget, audioTime>>

handleSliderRelease ==
    /\ UNCHANGED <<previewState, fill>>
    /\ HasLine(syncData, currentLine)
    /\ audioTime \in ScrubTimes(syncData)
    /\ \E nextSyncData \in {handleSliderReleaseData(syncData, currentLine, syncTarget,
                                                    charIdx, audioTime)} :
       LET releaseTime == audioTime
           releaseIndex == charIdx
           lineToUpdate == LineAt(nextSyncData, currentLine)
           numChars == Len(activeChars(syncData, currentLine, syncTarget))
           adlibIdx == firstUnsyncedAdlibIndex(lineToUpdate)
           nextLineIndex == currentLine + 1
       IN  /\ syncData' = nextSyncData
           /\ op' = Op("release", releaseIndex)
           /\ IF isAtEnd(releaseIndex, numChars)
                 /\ ~isPartSynced(lineToUpdate.chars, lineToUpdate.time)
              THEN \* handleTargetChange({ part: 'main' })
                   /\ syncTarget' = MainTarget
                   /\ audioTime' = handleTargetChangeSeek(syncData, currentLine, audioTime)
                   /\ charIdx' = CharIdxEffect(nextSyncData, currentLine, MainTarget, 0)
                   /\ UNCHANGED currentLine
              ELSE IF isAtEnd(releaseIndex, numChars) /\ adlibIdx # -1
              THEN \* handleTargetChange({ part: 'adlib', adlibIndex })
                   /\ syncTarget' = AdlibTarget(adlibIdx)
                   /\ audioTime' = handleTargetChangeSeek(syncData, currentLine, audioTime)
                   /\ charIdx' = CharIdxEffect(nextSyncData, currentLine, AdlibTarget(adlibIdx), 0)
                   /\ UNCHANGED currentLine
              ELSE IF isAtEnd(releaseIndex, numChars) /\ nextLineIndex < Len(nextSyncData)
              THEN \* the line is fully synced: changeLine(nextLineIndex, {play: true})
                   /\ audioTime' = AdvanceSeek(nextSyncData, currentLine, audioTime)
                   /\ currentLine' = nextLineIndex
                   /\ syncTarget' = MainTarget
                   /\ charIdx' = CharIdxEffect(nextSyncData, nextLineIndex, MainTarget, 0)
              ELSE \* no special action: only the timestamp is committed
                   /\ charIdx' = CharIdxEffect(nextSyncData, currentLine, syncTarget, charIdx)
                   /\ UNCHANGED <<currentLine, syncTarget, audioTime>>

\* a click on the main text or on an ad-lib of the current line
handleTargetChange(newTarget) ==
    /\ UNCHANGED <<previewState, fill>>
    /\ HasLine(syncData, currentLine)
    /\ \/ newTarget = MainTarget
       \/ /\ newTarget.part = "adlib"
          /\ newTarget.adlibIndex \in 0..(Len(LineAt(syncData, currentLine).adlibs) - 1)
    /\ syncTarget' = newTarget
    /\ audioTime' = handleTargetChangeSeek(syncData, currentLine, audioTime)
    /\ charIdx' = CharIdxEffect(syncData, currentLine, newTarget, 0)
    /\ op' = Op("target", newTarget.adlibIndex)
    /\ UNCHANGED <<syncData, currentLine>>

handleReplayLine ==
    /\ UNCHANGED <<previewState, fill>>
    /\ HasLine(syncData, currentLine)
    /\ LET lineData == LineAt(syncData, currentLine)
           originalStartTime == getLineStartTime(lineData)
           newData == [syncData EXCEPT ![currentLine + 1] = ClearedLine(lineData)]
       IN  /\ syncData' = newData
           /\ syncTarget' = MainTarget
           /\ charIdx' = CharIdxEffect(newData, currentLine, MainTarget, 0)
           /\ audioTime' = IF originalStartTime # Infinity
                           THEN SeekRewind(originalStartTime) ELSE audioTime
           /\ op' = Op("replay", currentLine)
           /\ UNCHANGED currentLine

\* "reset timings", confirmed: every line cleared, then changeLine(0, {seek: true}),
\* whose updater runs on the cleared data
handleResetTimings ==
    /\ UNCHANGED <<previewState, fill>>
    /\ HasLine(syncData, currentLine)
    /\ LET cleared == [i \in 1..Len(syncData) |-> ClearedLine(syncData[i])]
           newData == changeLineData(cleared, 0)
       IN  /\ syncData' = newData
           /\ audioTime' = changeLineSeek(cleared, 0, audioTime)
           /\ currentLine' = 0
           /\ syncTarget' = MainTarget
           /\ charIdx' = CharIdxEffect(newData, 0, MainTarget, 0)
           /\ op' = Op("reset", -1)

\* changeLine(index, {seek: true}) of the "previous line" and "next unsynced" buttons
changeLine(index, kind) ==
    /\ UNCHANGED <<previewState, fill>>
    /\ HasLine(syncData, currentLine)
    /\ LET newData == changeLineData(syncData, index)
       IN  /\ syncData' = newData
           /\ audioTime' = changeLineSeek(syncData, index, audioTime)
           /\ currentLine' = index
           /\ syncTarget' = MainTarget
           /\ charIdx' = CharIdxEffect(newData, index, MainTarget, 0)
           /\ op' = Op(kind, index)

handlePreviousLine ==
    /\ currentLine # 0
    /\ changeLine(Max2(0, currentLine - 1), "prev")

handleJumpToNextUnsynced ==
    /\ nextUnsyncedIndex(syncData) # -1
    /\ changeLine(nextUnsyncedIndex(syncData), "jump")

Next ==
    \/ \E t \in ClockTimes : AudioSeek(t)
    \/ \E v \in SliderValues : handleSliderInput(v)
    \/ handleSliderRelease
    \/ \E k \in -1..1 : handleTargetChange(IF k = -1 THEN MainTarget ELSE AdlibTarget(k))
    \/ handleReplayLine
    \/ handleResetTimings
    \/ handlePreviousLine
    \/ handleJumpToNextUnsynced

Spec == Init /\ [][Next]_vars

(* ------------------- the editor on a loaded project -------------------- *)

\* a fully timed track with the characters 1.5 s apart; a saved project may
\* hold any part of it, the other entries being null
LoadedFullTrack == [i \in 1..Len(LoadedTrack) |-> Sec(2) + (i - 1) * 15 * Tenth]

LoadedTracks ==
    { [i \in 1..Len(LoadedTrack) |-> IF i \in S THEN LoadedFullTrack[i] ELSE NULL]
      : S \in SUBSET (1..Len(LoadedTrack)) }

\* one line without ad-libs, its track taken from the project file
InitLoaded ==
    /\ \E tr \in LoadedTracks :
          syncData = << [Line(LoadedLineId, Text(Len(LoadedTrack)), <<>>, "")
                               EXCEPT !.time = tr] >>
    /\ currentLine = 0
    /\ syncTarget = MainTarget
    /\ charIdx = CharIdxEffect(syncData, 0, MainTarget, 0)
    /\ audioTime = 0
    /\ currentTime = 0 /\ focusLineId = "" /\ anchorLineId = "" /\ activeGroupIdRef = ""
    /\ fill = NoFill
    /\ op = Op("init", -1)

NextLoaded ==
    \/ \E t \in LoadedClock : AudioSeek(t)
    \/ \E v \in SliderValues : handleSliderInput(v)
    \/ handleSliderRelease
    \/ handleReplayLine

SpecLoaded == InitLoaded /\ [][NextLoaded]_vars

(* -------------------- components/PreviewMode.tsx ----------------------- *)

\* number of lines of a previewed project
NumPreviewLines == 3

\* the 0.2 s pre-roll of the active-line test
PreRoll == 2 * Tenth

\* the place (1-based) of line i after the sort: Array.prototype.sort is
\* stable, so a line goes after the lines that start earlier and after the
\* lines before it that start at the same time
SortedPlace(data, i) ==
    1 + Cardinality({j \in 1..Len(data) :
            \/ getLineStartTime(data[j]) < getLineStartTime(data[i])
            \/ getLineStartTime(data[j]) = getLineStartTime(data[i]) /\ j < i})

\* [...syncData].sort((a, b) => getLineStartTime(a) - getLineStartTime(b))
sortedSyncData(data) ==
    [p \in 1..Len(data) |-> data[CHOOSE i \in 1..Len(data) : SortedPlace(data, i) = p]]

linesWithTimes(sorted) ==
    [i \in 1..Len(sorted) |->
        [id |-> sorted[i].id,
         start |-> getLineStartTime(sorted[i]),
         end |-> getLineEndTime(sorted[i])]]

\* the body of the two inner loops for one pair (lineA, lineB)
RelaxPair(lws, endTimes, a, b) ==
    LET lineA == lws[a]
        lineB == lws[b]
    IN  IF lineA.start = Infinity \/ lineA.id \notin DOMAIN endTimes
        THEN endTimes
        ELSE IF \/ lineA.id = lineB.id
                \/ lineB.start = Infinity
                \/ lineB.id \notin DOMAIN endTimes
        THEN endTimes
        ELSE IF lineA.start < lineB.end /\ lineA.end > lineB.start
        THEN LET maxEnd == Max2(endTimes[lineA.id], endTimes[lineB.id])
             IN  [endTimes EXCEPT ![lineA.id] = maxEnd, ![lineB.id] = maxEnd]
        ELSE endTimes

\* one pass: every pair in the order of the nested loops, updating in place
\* (the map left by a pair is bound as a value before the next pair reads it)
RelaxPass(lws, endTimes) ==
    LET n == Len(lws)
        after[p \in 0..(n * n)] ==
            IF p = 0 THEN endTimes
            ELSE CHOOSE next \in
                     {RelaxPair(lws, prev, ((p - 1) \div n) + 1, ((p - 1) % n) + 1) :
                         prev \in {after[p - 1]}}
                   : TRUE
    IN  after[n * n]

\* for (i = 0; i < linesWithTimes.length; i++) { pass; if (!changed) break; }
\* after[i] is the map after at most i passes, and whether the loop has broken
RelaxPasses(lws, endTimes) ==
    LET after[i \in 0..Len(lws)] ==
            IF i = 0 THEN [map |-> endTimes, broken |-> FALSE]
            ELSE CHOOSE now \in
                     {IF prev.broken THEN prev
                      ELSE CHOOSE r \in {[map |-> next, broken |-> next = prev.map] :
                                           next \in {RelaxPass(lws, prev.map)}} : TRUE
                      : prev \in {after[i - 1]}}
                   : TRUE
    IN  after[Len(lws)].map

\* the map before the passes: every line that has an end time
InitialEndTimes(lws) ==
    [id \in {lws[i].id : i \in {k \in 1..Len(lws) : lws[k].end # NegInfinity}} |->
        (CHOOSE l \in Range(lws) : l.id = id).end]

\* mutant: a single pass over the pairs
effectiveLineEndTimes_OnePass(sorted) ==
    CHOOSE endTimes \in
        {RelaxPass(lws, InitialEndTimes(lws)) : lws \in {linesWithTimes(sorted)}} : TRUE

effectiveLineEndTimes(sorted) ==
    CHOOSE endTimes \in
        {RelaxPasses(lws, InitialEndTimes(lws)) : lws \in {linesWithTimes(sorted)}} : TRUE

(* ------------- structure and text edits (StructureMode, LyricEditor) ---- *)

Wrap(chars) == <<"(">> \o chars \o <<")">>

\* text.replace(/^\(|\)$/g, '')
StripParens(text) ==
    LET a == IF Len(text) > 0 /\ text[1] = "(" THEN SubSeq(text, 2, Len(text)) ELSE text
    IN  IF Len(a) > 0 /\ a[Len(a)] = ")" THEN SubSeq(a, 1, Len(a) - 1) ELSE a

\* !text.trim()
IsBlank(text) == \A i \in 1..Len(text) : text[i] = " "

convertSyncDataToStructure(data) ==
    [i \in 1..Len(data) |->
        [id |-> data[i].id,
         text |-> data[i].chars,
         adlibs |-> [a \in 1..Len(data[i].adlibs) |->
                        [id |-> data[i].adlibs[a].id, text |-> Wrap(data[i].adlibs[a].chars)]],
         groupId |-> data[i].groupId]]

\* saveEditing: the text of the main part (k = 0) or of ad-lib k - 1 is replaced
saveEditing(lines, i, k, text) ==
    IF k = 0 THEN [lines EXCEPT ![i].text = text]
    ELSE [lines EXCEPT ![i].adlibs[k].text = text]

\* the body of lines.map(...) in handleConfirm
handleConfirmLine(line, initialStructure) ==
    LET originals == {j \in 1..Len(initialStructure) : initialStructure[j].id = line.id}
        promote == IsBlank(line.text) /\ Len(line.adlibs) > 0
        mainText == IF promote THEN StripParens(line.adlibs[1].text) ELSE line.text
        adlibs == IF promote THEN Tail(line.adlibs) ELSE line.adlibs
        finalTime == IF originals # {} /\ initialStructure[SetMin(originals)].chars = mainText
                     THEN initialStructure[SetMin(originals)].time
                     ELSE NullArray(Len(mainText))
        AdlibOf(adlib) ==
            LET cleanText == StripParens(adlib.text)
                olds == IF originals = {} THEN {}
                        ELSE {b \in 1..Len(initialStructure[SetMin(originals)].adlibs) :
                                initialStructure[SetMin(originals)].adlibs[b].id = adlib.id}
            IN  [id |-> adlib.id,
                 chars |-> cleanText,
                 time |-> IF olds # {}
                             /\ initialStructure[SetMin(originals)].adlibs[SetMin(olds)].chars
                                    = cleanText
                          THEN initialStructure[SetMin(originals)].adlibs[SetMin(olds)].time
                          ELSE NullArray(Len(cleanText))]
    IN  [id |-> line.id, chars |-> mainText, time |-> finalTime,
         adlibs |-> [a \in 1..Len(adlibs) |-> AdlibOf(adlibs[a])],
         groupId |-> line.groupId]

KeptLine(line) == Len(line.chars) > 0 \/ Len(line.adlibs) > 0

handleConfirm(lines, initialStructure) ==
    SelectSeq([i \in 1..Len(lines) |-> handleConfirmLine(lines[i], initialStructure)], KeptLine)

\* LyricEditor.handleSaveChanges, the text part: a changed text resets its track
handleSaveChangesLine(selectedLine, mainText, k, adlibText, allLines) ==
    LET withMain == IF mainText # selectedLine.chars
                    THEN [selectedLine EXCEPT !.chars = mainText,
                                              !.time = NullArray(Len(mainText))]
                    ELSE selectedLine
        newAdlibs == [a \in 1..Len(withMain.adlibs) |->
                        IF a = k /\ adlibText # withMain.adlibs[a].chars
                        THEN [withMain.adlibs[a] EXCEPT !.chars = adlibText,
                                                        !.time = NullArray(Len(adlibText))]
                        ELSE withMain.adlibs[a]]
        groupMembers == IF selectedLine.groupId = "" THEN {selectedLine.id}
                        ELSE {allLines[j].id : j \in {m \in 1..Len(allLines) :
                                                 allLines[m].groupId = selectedLine.groupId}}
    IN  [withMain EXCEPT !.adlibs = newAdlibs,
                         !.groupId = IF Cardinality(groupMembers) > 1
                                     THEN selectedLine.groupId ELSE ""]

\* the texts the user types
EditTexts == {<<>>, <<"x">>}

\* back to structure mode, one text edited, confirmed: the editor is mounted anew
StructureEdit(i, k, text) ==
    /\ UNCHANGED <<previewState, fill>>
    /\ i \in 1..Len(syncData)
    /\ k \in 0..Len(syncData[i].adlibs)
    /\ LET lines == saveEditing(convertSyncDataToStructure(syncData), i, k,
                                IF k = 0 THEN text ELSE Wrap(text))
           newData == handleConfirm(lines, syncData)
       IN  /\ syncData' = newData
           /\ currentLine' = 0
           /\ syncTarget' = MainTarget
           /\ charIdx' = CharIdxEffect(newData, 0, MainTarget, 0)
           /\ audioTime' = 0
           /\ op' = Op("confirm", i - 1)

\* LyricEditor: the text of line i saved, handed to onUpdate, which stores the line
LyricEditorSave(i, k, text) ==
    /\ UNCHANGED <<previewState, fill>>
    /\ i \in 1..Len(syncData)
    /\ k \in 0..Len(syncData[i].adlibs)
    /\ LET line == syncData[i]
           newLine == handleSaveChangesLine(line,
                          IF k = 0 THEN text ELSE line.chars, k, text, syncData)
           newData == [syncData EXCEPT ![i] = newLine]
       IN  /\ newLine # line
           /\ syncData' = newData
           /\ charIdx' = CharIdxEffect(newData, currentLine, syncTarget, charIdx)
           /\ op' = Op("save", i - 1)
           /\ UNCHANGED <<currentLine, syncTarget, audioTime>>

\* the projects of the specification with edits: short texts, one of them empty
InitProjectsEdit ==
    { << Line("L1", <<"a">>, <<Adlib("A1", <<>>)>>, ""),
         Line("L2", <<"b">>, <<>>, "") >> }

InitEdit ==
    /\ syncData \in InitProjectsEdit
    /\ currentLine = 0
    /\ charIdx = 0
    /\ syncTarget = MainTarget
    /\ audioTime = 0
    /\ currentTime = 0 /\ focusLineId = "" /\ anchorLineId = "" /\ activeGroupIdRef = ""
    /\ fill = NoFill
    /\ op = Op("init", -1)

NextEdit ==
    \/ Next
    \/ \E i \in 1..2, k \in 0..2, text \in EditTexts : StructureEdit(i, k, text)
    \/ \E i \in 1..2, k \in 0..2, text \in EditTexts : LyricEditorSave(i, k, text)

SpecEdit == InitEdit /\ [][NextEdit]_vars

(* --------------- PreviewMode: active lines, focus, anchor -------------- *)

\* the test of the activeLineIds loop for one line
IsActiveLine_NoPreRoll(line, effEnds, t) ==
    LET startTime == getLineStartTime(line)
        endTime == IF line.id \in DOMAIN effEnds THEN effEnds[line.id] ELSE NegInfinity
    IN  /\ startTime # Infinity
        /\ endTime # NegInfinity /\ t >= startTime /\ t < endTime

IsActiveLine(line, effEnds, t) ==
    LET startTime == getLineStartTime(line)
        endTime == IF line.id \in DOMAIN effEnds THEN effEnds[line.id] ELSE NegInfinity
    IN  /\ startTime # Infinity
        /\ endTime # NegInfinity /\ t >= startTime - PreRoll /\ t < endTime

\* activeIds, as the set of its entries (it is only read with includes);
\* effEnds is the memoised effectiveLineEndTimes
activeLineIds(sorted, effEnds, t) ==
    {sorted[i].id : i \in {k \in 1..Len(sorted) : IsActiveLine(sorted[k], effEnds, t)}}

\* the loop that keeps <<latestStartTime, mostRecentId>>, after i lines
MostRecentFrom(sorted, t) ==
    LET after[i \in 0..Len(sorted)] ==
            IF i = 0 THEN <<-1, "">>
            ELSE LET startTime == getLineStartTime(sorted[i])
                 IN  IF /\ startTime # Infinity
                        /\ startTime <= t
                        /\ startTime > after[i - 1][1]
                     THEN <<startTime, sorted[i].id>>
                     ELSE after[i - 1]
    IN  after[Len(sorted)]

mostRecentStartedId(sorted, t) == MostRecentFrom(sorted, t)[2]

\* mutant: the focus follows the earliest active line
LatestActiveId_Earliest(sorted, activeIds) ==
    LET act == {i \in 1..Len(sorted) : sorted[i].id \in activeIds}
        m == SetMin({getLineStartTime(sorted[i]) : i \in act})
    IN  sorted[SetMin({i \in act : getLineStartTime(sorted[i]) = m})].id

\* currentlyActiveLines.reduce(...): the first of the lines that start latest
LatestActiveId(sorted, activeIds) ==
    LET act == {i \in 1..Len(sorted) : sorted[i].id \in activeIds}
        m == SetMax({getLineStartTime(sorted[i]) : i \in act})
    IN  sorted[SetMin({i \in act : getLineStartTime(sorted[i]) = m})].id

\* mutant: a focus that is set is kept, active or not
FocusEffect_KeepFocus(sorted, activeIds, mostRecentId, focus) ==
    IF focus # "" THEN focus
    ELSE IF activeIds # {} THEN LatestActiveId(sorted, activeIds)
    ELSE mostRecentId

\* the focus effect: the value of focusLineId once it has run, from the
\* memoised activeLineIds and mostRecentStartedId
FocusEffect(sorted, activeIds, mostRecentId, focus) ==
    IF focus # "" /\ focus \in activeIds THEN focus
    ELSE LET nextFocusId == IF activeIds # {}
                            THEN LatestActiveId(sorted, activeIds)
                            ELSE mostRecentId
         IN  IF nextFocusId # "" /\ nextFocusId # focus THEN nextFocusId ELSE focus

\* mutant: the anchor is the focus line itself, whatever its group
AnchorEffect_FocusLine(sorted, focus, anchor, ref) ==
    LET found == {i \in 1..Len(sorted) : sorted[i].id = focus}
    IN  IF focus = "" \/ found = {} THEN <<anchor, ref>>
        ELSE LET focusLine == sorted[SetMin(found)]
                 currentContextId == IF focusLine.groupId # "" THEN focusLine.groupId
                                     ELSE focusLine.id
             IN  IF currentContextId # ref THEN <<focusLine.id, currentContextId>>
                 ELSE <<anchor, ref>>

\* the anchor effect: <<anchorLineId, activeGroupIdRef.current>> once it has run
AnchorEffect(sorted, focus, anchor, ref) ==
    LET found == {i \in 1..Len(sorted) : sorted[i].id = focus}
    IN  IF focus = "" \/ found = {} THEN <<anchor, ref>>
        ELSE LET focusLine == sorted[SetMin(found)]
                 currentContextId == IF focusLine.groupId # "" THEN focusLine.groupId
                                     ELSE focusLine.id
                 groupLines == {i \in 1..Len(sorted) : sorted[i].groupId = focusLine.groupId}
                 earliest == SetMin({getLineStartTime(sorted[i]) : i \in groupLines})
                 newAnchorLine ==
                     IF focusLine.groupId # "" /\ earliest < getLineStartTime(focusLine)
                     THEN sorted[SetMin({i \in groupLines :
                                           getLineStartTime(sorted[i]) = earliest})]
                     ELSE focusLine
             IN  IF currentContextId # ref THEN <<newAnchorLine.id, currentContextId>>
                 ELSE <<anchor, ref>>

\* the tracks of the previewed lines, in seconds (NULL: not synced)
PreviewTracks ==
    {<<NULL, NULL>>, <<Sec(0), Sec(5)>>, <<Sec(4), Sec(9)>>, <<Sec(8), Sec(12)>>,
     <<Sec(5), NULL>>}

PreviewLineId(i) == <<"L1", "L2", "L3", "L4", "L5">>[i]

\* every project of NumPreviewLines lines; the first two lines form a group
PreviewProjects ==
    { [i \in 1..NumPreviewLines |->
          [Line(PreviewLineId(i), <<"a", "b">>, <<>>, IF i <= 2 THEN "g1" ELSE "")
              EXCEPT !.time = tr[i]]]
      : tr \in [1..NumPreviewLines -> PreviewTracks] }

\* the playback positions sampled by the frames
PreviewClock ==
    {Sec(0), Sec(4) - 3 * Tenth, Sec(4) - PreRoll, Sec(5), Sec(7), Sec(9), Sec(12)}

\* the focus and anchor effects that follow a render at the sampled time t,
\* from the memoised sortedSyncData and effectiveLineEndTimes:
\* <<focusLineId, anchorLineId, activeGroupIdRef.current>>
PreviewEffects(sorted, effEnds, t, focus, anchor, ref) ==
    LET newFocus == FocusEffect(sorted, activeLineIds(sorted, effEnds, t),
                                mostRecentStartedId(sorted, t), focus)
    IN  <<newFocus>> \o AnchorEffect(sorted, newFocus, anchor, ref)

InitPreview ==
    /\ syncData \in PreviewProjects
    /\ audioTime = 0
    /\ currentTime = 0
    /\ \E sorted \in {sortedSyncData(syncData)} :
       \E effEnds \in {effectiveLineEndTimes(sorted)} :
       \E after \in {PreviewEffects(sorted, effEnds, 0, "", "", "")} :
          /\ focusLineId = after[1]
          /\ anchorLineId = after[2]
          /\ activeGroupIdRef = after[3]
    /\ currentLine = 0 /\ charIdx = 0 /\ syncTarget = MainTarget
    /\ fill = NoFill
    /\ op = Op("init", -1)

\* a frame: the audio is at t and updateCurrentTime samples it
updateCurrentTime(t) ==
    /\ t # currentTime
    /\ audioTime' = t
    /\ currentTime' = t
    /\ \E sorted \in {sortedSyncData(syncData)} :
       \E effEnds \in {effectiveLineEndTimes(sorted)} :
       \E after \in {PreviewEffects(sorted, effEnds, t, focusLineId,
                                    anchorLineId, activeGroupIdRef)} :
          /\ focusLineId' = after[1]
          /\ anchorLineId' = after[2]
          /\ activeGroupIdRef' = after[3]
    /\ op' = Op("frame", -1)
    /\ UNCHANGED <<syncData, syncState, fill>>

\* a click on line i (1-based) of the rendered list
handleLineClick(i) ==
    /\ i \in 1..Len(syncData)
    /\ \E sorted \in {sortedSyncData(syncData)} :
       \E effEnds \in {effectiveLineEndTimes(sorted)} :
       \E startTime \in {getLineStartTime(sorted[i])} :
       \E after \in {PreviewEffects(sorted, effEnds, currentTime, sorted[i].id,
                                    anchorLineId, activeGroupIdRef)} :
          /\ startTime # Infinity
          /\ audioTime' = startTime
          /\ focusLineId' = after[1]
          /\ anchorLineId' = after[2]
          /\ activeGroupIdRef' = after[3]
    /\ op' = Op("click", i - 1)
    /\ UNCHANGED <<syncData, syncState, currentTime, fill>>

NextPreview ==
    \/ \E t \in PreviewClock : updateCurrentTime(t)
    \/ \E i \in 1..NumPreviewLines : handleLineClick(i)

SpecPreview == InitPreview /\ [][NextPreview]_vars

(* ------- the edit button of a preview line: back to sync mode ---------- *)

\* sortedSyncData.findIndex(l => l.id === line.id), 0-based
lineGlobalIndex(sorted, id) ==
    SetMin({p \in 1..Len(sorted) : sorted[p].id = id}) - 1

\* the edit button of the rendered line that is line j (1-based) of the
\* project: onBackToSync(lineGlobalIndex) sets targetSyncLineIndex and the
\* mode, SyncMode mounts with initialLineIndex on its own audio element
\* (position 0) and its effect runs changeLine(initialLineIndex, {seek: true})
onBackToSync(j) ==
    /\ op.kind # "edit"
    /\ j \in 1..Len(syncData)
    /\ \E initialLineIndex \in {lineGlobalIndex(sortedSyncData(syncData), syncData[j].id)} :
       \E newData \in {changeLineData(syncData, initialLineIndex)} :
          /\ syncData' = newData
          /\ audioTime' = changeLineSeek(syncData, initialLineIndex, 0)
          /\ currentLine' = initialLineIndex
          /\ syncTarget' = MainTarget
          /\ charIdx' = CharIdxEffect(newData, initialLineIndex, MainTarget, 0)
    /\ op' = Op("edit", j - 1)
    /\ UNCHANGED <<previewState, fill>>

\* preview mode until an edit button is pressed
NextResync ==
    \/ op.kind # "edit" /\ NextPreview
    \/ \E j \in 1..NumPreviewLines : onBackToSync(j)

SpecResync == InitPreview /\ [][NextResync]_vars

(* ------- playback that only moves forward over fixed timing data -------- *)

\* the playback positions sampled by the frames of a forward playback
StatusClock ==
    {Sec(0), Sec(4) - PreRoll, Sec(5) - Tenth, Sec(5), Sec(5) + Tenth, Sec(9), Sec(12)}

NextStatus ==
    \E t \in StatusClock : t > currentTime /\ updateCurrentTime(t)

SpecStatus == InitPreview /\ [][NextStatus]_vars

(* ---------- components/ProgressFillText.tsx, AnimatedLyricLine.tsx ---- *)

\* a fraction is a pair <<numerator, denominator>> with a positive denominator;
\* the fill percentage is kept exact
FracLeq(a, b) == a[1] * b[2] <= b[1] * a[2]
FracIs(a, n) == a[1] = n * a[2]

\* the last index (0-based) whose timestamp is set and <= currentTime, else -1
lastSungIndex(time, t) ==
    IF \E i \in 1..Len(time) : time[i] # NULL /\ time[i] <= t
    THEN SetMax({i \in 1..Len(time) : time[i] # NULL /\ time[i] <= t}) - 1
    ELSE -1

\* time.findIndex((t, i) => t !== null && i > lastSungIndex)
nextSungIndex(time, last) ==
    IF \E i \in 1..Len(time) : time[i] # NULL /\ i - 1 > last
    THEN SetMin({i \in 1..Len(time) : time[i] # NULL /\ i - 1 > last}) - 1
    ELSE -1

\* mutant: the segment is taken to start at the first character
charsInSegment_NoOffset(numChars, next, last) ==
    IF next # -1 THEN next ELSE numChars

charsInSegment(numChars, next, last) ==
    (IF next # -1 THEN next ELSE numChars) - last

\* mutant: the character being sung counts as done
charsDone_CountsCurrent(last, into, duration, inSegment) ==
    <<(last + 1) * duration + Max2(0, Min2(duration, into)) * inSegment, duration>>

\* mutant: the segment progress is not clamped to [0, 1]
charsDone_NoClamp(last, into, duration, inSegment) ==
    <<last * duration + into * inSegment, duration>>

\* lastSungIndex + Math.max(0, Math.min(1, into / duration)) * charsInSegment
charsDone(last, into, duration, inSegment) ==
    <<last * duration + Max2(0, Min2(duration, into)) * inSegment, duration>>

\* mutant: the test for a track without timestamps comes before the test of
\* the complete flag (and the fill moves in whole characters)
progress_StampsFirst(p) ==
    IF Len(p.chars) = 0 \/ \A i \in 1..Len(p.time) : p.time[i] = NULL THEN <<0, 1>>
    ELSE IF p.isComplete THEN <<100, 1>>
    ELSE IF p.currentTime < p.time[SetMin({i \in 1..Len(p.time) : p.time[i] # NULL})]
    THEN <<0, 1>>
    ELSE <<(lastSungIndex(p.time, p.currentTime) + 1) * 100, Len(p.chars)>>

\* the fill percentage of ProgressFillText for the props p
progress(p) ==
    IF p.isComplete THEN <<100, 1>>
    ELSE IF Len(p.chars) = 0 \/ \A i \in 1..Len(p.time) : p.time[i] = NULL THEN <<0, 1>>
    ELSE IF p.currentTime < p.time[SetMin({i \in 1..Len(p.time) : p.time[i] # NULL})]
    THEN <<0, 1>>
    ELSE LET last == lastSungIndex(p.time, p.currentTime)
             next == nextSungIndex(p.time, last)
             startTime == p.time[last + 1]
             endTime == IF next # -1 THEN p.time[next + 1] ELSE p.endTimeOverride
         IN  IF last = -1 THEN <<0, 1>>
             ELSE IF endTime = NULL \/ endTime <= startTime
             THEN <<(last + 1) * 100, Len(p.chars)>>
             ELSE LET done == charsDone(last, p.currentTime - startTime,
                                        endTime - startTime,
                                        charsInSegment(Len(p.chars), next, last))
                  IN  <<done[1] * 100, done[2] * Len(p.chars)>>

\* AnimatedLyricLine: lineStatus === 'past'; the start time is that of the
\* whole line, its ad-libs included
isCurrentlyPast(lineData, t, isActive) ==
    ~isActive /\ getLineStartTime(lineData) < t

\* AnimatedLyricLine: isActive ? 'active' : isCurrentlyPast ? 'past' : 'future'
lineStatus(lineData, t, isActive) ==
    IF isActive THEN "active"
    ELSE IF isCurrentlyPast(lineData, t, isActive) THEN "past"
    ELSE "future"

\* the timestamps of the filled tracks, and the end-time overrides
FillTimes == {NULL, Sec(1), Sec(2), Sec(3), Sec(4)}
FillOverrides == {NULL, Sec(2), Sec(5)}
\* the ad-libs of the line the track is the main track of: none, or one that
\* is sung at 1 s
FillAdlibs == {<<>>, << [id |-> "A1", chars |-> <<"x">>, time |-> <<Sec(1)>>] >>}
\* the playback positions of the renders: every half second up to 5.5 s
FillClock == {5 * k * Tenth : k \in 0..11}

InitProgress ==
    /\ \E n \in 1..MaxLen :
         fill \in [chars : {Text(n)}, time : [1..n -> FillTimes], adlibs : FillAdlibs,
                   currentTime : {0}, endTimeOverride : FillOverrides,
                   isComplete : {FALSE}]
    /\ syncData = <<>>
    /\ audioTime = 0
    /\ currentLine = 0 /\ charIdx = 0 /\ syncTarget = MainTarget
    /\ currentTime = 0 /\ focusLineId = "" /\ anchorLineId = "" /\ activeGroupIdRef = ""
    /\ op = Op("init", -1)

\* AnimatedLyricLine renders the track at the position t
AnimatedLyricLine(t, isActive) ==
    /\ fill' = [fill EXCEPT !.currentTime = t,
                            !.isComplete = isCurrentlyPast(fill, t, isActive)]
    /\ fill' # fill
    /\ op' = Op("render", -1)
    /\ UNCHANGED <<syncData, audioTime, syncState, previewState>>

NextProgress ==
    \E t \in FillClock, isActive \in BOOLEAN : AnimatedLyricLine(t, isActive)

SpecProgress == InitProgress /\ [][NextProgress]_vars

(* ============================ the claims ============================== *)

\* the track of the active target of the current line, before and after a step
ActiveTrack == TargetTime(LineAt(syncData, currentLine), syncTarget)
ActiveTrackNext == TargetTime(LineAt(syncData', currentLine'), syncTarget')

\* the step is a scrub that wrote at index idx, a commit, ...
IsScrubStep == op'.kind = "scrub" /\ op'.arg >= 0
IsReleaseStep == op'.kind = "release"

(* C1 - a scrub to index idx at playback time t sets time[idx] = t on the   *)
(* active track and leaves every index above idx null, whatever the track   *)
(* held; from [null,null,null], a scrub to index 2 at t = 10 s and then to   *)
(* index 0 at t = 4 s leaves exactly [4, null, null].                        *)
C1_ScrubSetsAndClears ==
    [][IsScrubStep =>
        /\ Len(ActiveTrackNext) = Len(ActiveTrack)
        /\ ActiveTrackNext[op'.arg + 1] = audioTime
        /\ \A i \in 1..Len(ActiveTrackNext) : i - 1 > op'.arg => ActiveTrackNext[i] = NULL
        /\ (ActiveTrack = <<NULL, NULL, NULL>> /\ op'.arg = 2 /\ audioTime = Sec(10))
              => ActiveTrackNext = <<NULL, NULL, Sec(10)>>
        /\ (ActiveTrack = <<NULL, NULL, Sec(10)>> /\ op'.arg = 0 /\ audioTime = Sec(4))
              => ActiveTrackNext = <<Sec(4), NULL, NULL>>
      ]_vars

\* a backward scrub has just cleared a track that held later timestamps
C1_Witness ==
    /\ op = Op("scrub", 0)
    /\ HasLine(syncData, currentLine)
    /\ ActiveTrack = <<Sec(4), NULL, NULL>>
    /\ audioTime = Sec(4)

\* the line, after the write of the commit, has its main track and every ad-lib
\* synced through to the last character
FullySyncedAfterCommit ==
    LET line == LineAt(syncData', currentLine)
    IN  /\ (Len(line.chars) = 0 \/ line.time[Len(line.chars)] # NULL)
        /\ \A a \in 1..Len(line.adlibs) :
              Len(line.adlibs[a].chars) = 0
              \/ line.adlibs[a].time[Len(line.adlibs[a].chars)] # NULL

\* the commit is released on the last character of the active target
ReleasedOnLastChar ==
    LET n == Len(activeChars(syncData, currentLine, syncTarget))
    IN  n > 0 /\ charIdx = n - 1

(* C3 - a commit changes the current line only when it is released on the   *)
(* last character of the active target, the whole line is fully synced      *)
(* after the write and a next line exists; then the index grows by one and  *)
(* the target becomes the main track; otherwise the line index is unchanged *)
C3_CommitAdvance ==
    [][IsReleaseStep =>
        IF ReleasedOnLastChar /\ FullySyncedAfterCommit /\ currentLine + 1 < Len(syncData)
        THEN currentLine' = currentLine + 1 /\ syncTarget' = MainTarget
        ELSE currentLine' = currentLine
      ]_vars

\* a commit has just advanced from a fully synced first line with ad-libs
C3_Witness ==
    /\ op.kind = "release"
    /\ currentLine = 1
    /\ syncTarget = MainTarget
    /\ Len(syncData[1].adlibs) > 0
    /\ isLineFullySynced(syncData[1])
    /\ LineTimes(syncData[2]) = {}

(* C4 - a commit on the last character of the active target that leaves the *)
(* line not fully synced selects the main track if it is not fully synced,  *)
(* otherwise the lowest-index ad-lib that is not fully synced, and the line *)
(* does not advance.                                                        *)
C4_CommitSwitchesTarget ==
    [][(IsReleaseStep /\ ReleasedOnLastChar /\ ~FullySyncedAfterCommit) =>
        LET line == LineAt(syncData', currentLine)
            mainSynced == Len(line.chars) = 0 \/ line.time[Len(line.chars)] # NULL
            open == {a \in 1..Len(line.adlibs) :
                        Len(line.adlibs[a].chars) > 0
                        /\ line.adlibs[a].time[Len(line.adlibs[a].chars)] = NULL}
        IN  /\ currentLine' = currentLine
            /\ syncTarget' = IF ~mainSynced THEN MainTarget
                             ELSE AdlibTarget(SetMin(open) - 1)
      ]_vars

\* a commit on the main track has just handed over to the first of two
\* ad-libs that are both still unsynced
C4_Witness ==
    /\ op.kind = "release"
    /\ HasLine(syncData, currentLine)
    /\ syncTarget = AdlibTarget(0)
    /\ Len(LineAt(syncData, currentLine).adlibs) = 2
    /\ isPartSynced(LineAt(syncData, currentLine).chars, LineAt(syncData, currentLine).time)
    /\ \A a \in 1..2 : LineAt(syncData, currentLine).adlibs[a].time = <<NULL>>

\* the step is a commit that advances from line A to a next line B of A's group
AdvancesWithinGroup ==
    /\ IsReleaseStep
    /\ currentLine' = currentLine + 1
    /\ LineAt(syncData', currentLine).groupId # ""
    /\ LineAt(syncData', currentLine).groupId = LineAt(syncData', currentLine').groupId

\* the minimum start time over the lines of the group of line A, after the write
GroupMinStart ==
    LET g == LineAt(syncData', currentLine).groupId
    IN  SetMin(UNION {LineTimes(syncData'[i]) :
                        i \in {k \in 1..Len(syncData') : syncData'[k].groupId = g}})

(* C5 (as stated) - a commit that advances from a fully synced line A to a  *)
(* next line B of the same group sets the playback position to the minimum  *)
(* start time across the lines of that group.                               *)
C5_Original ==
    [][AdvancesWithinGroup => audioTime' = GroupMinStart]_vars

(* C5 (amended) - a commit that advances from a fully synced line A to a    *)
(* next line B of the same group sets the playback position to 0.1 s before *)
(* the minimum start time across the lines of that group (to 0 when that    *)
(* minimum is at most 0.1 s).                                               *)
C5_GroupJumpWithLeadIn ==
    [][AdvancesWithinGroup => audioTime' = Max2(0, GroupMinStart - Tenth)]_vars

\* a commit has just advanced inside a group whose second line (which has no
\* ad-lib, so that no commit on it seeks) holds the earliest timestamp
C5_Witness ==
    /\ op.kind = "release"
    /\ Len(syncData) = 2
    /\ currentLine = 1
    /\ syncData[1].groupId # "" /\ syncData[1].groupId = syncData[2].groupId
    /\ isLineFullySynced(syncData[1])
    /\ Len(syncData[2].adlibs) = 0
    /\ getLineStartTime(syncData[2]) < getLineStartTime(syncData[1])
    /\ audioTime = getLineStartTime(syncData[2]) - Tenth

(* ---- C2, C8, C9: the preview's effective ends, active lines, focus ---- *)

\* the pairwise overlap of two lines, on their own start and end
Overlaps(lineA, lineB) == lineA.start < lineB.end /\ lineA.end > lineB.start

\* the lines (indices of lws) reachable from the lines S through overlaps
OverlapClosure(lws, S) ==
    LET Step(R) == R \cup {j \in 1..Len(lws) :
                            /\ lws[j].end # NegInfinity
                            /\ \E k \in R : k # j /\ Overlaps(lws[k], lws[j])}
        reach[n \in 0..Len(lws)] == IF n = 0 THEN S ELSE Step(reach[n - 1])
    IN  reach[Len(lws)]

\* C2: every line with a timestamp gets, as its effective end, the greatest
\* end time of the lines reachable from it through a chain of pairwise
\* overlaps (so the bounded number of passes is enough); a line without a
\* timestamp gets no entry
C2_EffectiveEndIsClosureMax ==
    \A sorted \in {sortedSyncData(syncData)} :
    \A lws \in {linesWithTimes(sorted)} :
    \A effEnds \in {effectiveLineEndTimes(sorted)} :
        \A i \in 1..Len(lws) :
            IF lws[i].end # NegInfinity
            THEN /\ lws[i].id \in DOMAIN effEnds
                 /\ effEnds[lws[i].id] =
                        SetMax({lws[j].end : j \in OverlapClosure(lws, {i})})
            ELSE lws[i].id \notin DOMAIN effEnds

\* the chain [0,5], [4,9], [8,12] is previewed and all three lines end at 12
C2_Witness ==
    /\ op.kind = "frame"
    /\ \E sorted \in {sortedSyncData(syncData)} :
       \E lws \in {linesWithTimes(sorted)} :
       \E effEnds \in {effectiveLineEndTimes(sorted)} :
       \E i, j, k \in 1..Len(sorted) :
          /\ sorted[i].time = <<Sec(0), Sec(5)>>
          /\ sorted[j].time = <<Sec(4), Sec(9)>>
          /\ sorted[k].time = <<Sec(8), Sec(12)>>
          /\ ~Overlaps(lws[i], lws[k])
          /\ \A l \in {i, j, k} : effEnds[sorted[l].id] = Sec(12)

\* C8: a line is active at currentTime exactly when it has an effective end
\* and start - 0.2 s <= currentTime < effective end; a line without a
\* timestamp has no effective end and is not active
C8_ActiveWindow ==
    \A sorted \in {sortedSyncData(syncData)} :
    \A effEnds \in {effectiveLineEndTimes(sorted)} :
    \A activeIds \in {activeLineIds(sorted, effEnds, currentTime)} :
        \A i \in 1..Len(sorted) :
            /\ sorted[i].id \in activeIds
                 <=> /\ sorted[i].id \in DOMAIN effEnds
                     /\ getLineStartTime(sorted[i]) - 2 * Tenth <= currentTime
                     /\ currentTime < effEnds[sorted[i].id]
            /\ LineTimes(sorted[i]) = {}
                 => /\ sorted[i].id \notin DOMAIN effEnds
                    /\ sorted[i].id \notin activeIds

\* a frame inside the pre-roll of a line, which is active, next to a line
\* without a timestamp
C8_Witness ==
    /\ op.kind = "frame"
    /\ \E sorted \in {sortedSyncData(syncData)} :
       \E effEnds \in {effectiveLineEndTimes(sorted)} :
       \E i, j \in 1..Len(sorted) :
          /\ currentTime < getLineStartTime(sorted[i])
          /\ sorted[i].id \in activeLineIds(sorted, effEnds, currentTime)
          /\ LineTimes(sorted[j]) = {}

\* the lines (indices of sorted) inside their active window at t
ActiveAt(sorted, effEnds, t) ==
    {i \in 1..Len(sorted) :
        /\ sorted[i].id \in DOMAIN effEnds
        /\ getLineStartTime(sorted[i]) - 2 * Tenth <= t
        /\ t < effEnds[sorted[i].id]}

\* the lines (indices of sorted) that have started by t
StartedAt(sorted, t) ==
    {i \in 1..Len(sorted) : LineTimes(sorted[i]) # {} /\ getLineStartTime(sorted[i]) <= t}

\* the ids of the lines of I that start latest
LatestStarting(sorted, I) ==
    {sorted[i].id : i \in {k \in I :
        \A m \in I : getLineStartTime(sorted[m]) <= getLineStartTime(sorted[k])}}

\* the focus rule: from the focus prev, with the lines active and the lines
\* started (indices of sorted), the focus becomes new
FocusRule(sorted, active, started, prev, new) ==
    IF prev \in {sorted[i].id : i \in active} THEN new = prev
    ELSE IF active # {} THEN new \in LatestStarting(sorted, active)
    ELSE IF started # {} THEN new \in LatestStarting(sorted, started)
    ELSE new = prev

\* the focus rule at time t
FocusRuleAt(t, prev, new) ==
    \A sorted \in {sortedSyncData(syncData)} :
    \A effEnds \in {effectiveLineEndTimes(sorted)} :
    \A active \in {ActiveAt(sorted, effEnds, t)} :
    \A started \in {StartedAt(sorted, t)} :
        FocusRule(sorted, active, started, prev, new)

\* C9: when the focus is updated (after a frame, at the sampled time; after a
\* click, from the clicked line at the time last sampled) an active focus
\* stays; otherwise the focus becomes the active line that starts latest, or,
\* with no active line, the line that started latest; with neither it stays
C9_FocusUpdate ==
    [][ /\ op'.kind = "frame"
          => FocusRuleAt(currentTime', focusLineId, focusLineId')
        /\ op'.kind = "click"
          => FocusRuleAt(currentTime, sortedSyncData(syncData)[op'.arg + 1].id,
                         focusLineId') ]_vars

\* after a frame the focus is on a line that is still active although
\* another active line starts later
C9_Witness ==
    /\ op.kind = "frame"
    /\ \E sorted \in {sortedSyncData(syncData)} :
       \E effEnds \in {effectiveLineEndTimes(sorted)} :
       \E i, j \in ActiveAt(sorted, effEnds, currentTime) :
          /\ sorted[i].id = focusLineId
          /\ getLineStartTime(sorted[j]) > getLineStartTime(sorted[i])

(* ------------------- C6, C7: the fill percentage ----------------------- *)

\* the props of the example: track [1.0, 3.0], no override, not complete, at 2.0
C6_Case ==
    /\ fill.time = <<Sec(1), Sec(3)>>
    /\ fill.endTimeOverride = NULL
    /\ ~fill.isComplete
    /\ fill.currentTime = Sec(2)

\* C6 (as stated): for the track [1.0, 3.0], no end-time override, not flagged
\* complete, the fill percentage at currentTime = 2.0 is 75
C6_Original == C6_Case => FracIs(progress(fill), 75)

\* C6 (amended): for the track [1.0, 3.0], no end-time override, not flagged
\* complete, the fill percentage at currentTime = 2.0 is 25
C6_ProgressIs25 == C6_Case => FracIs(progress(fill), 25)

\* the example has been rendered
C6_Witness == C6_Case /\ op.kind = "render"

\* every character has a timestamp and the timestamps strictly increase
FullyIncreasing(time) ==
    /\ Len(time) > 0
    /\ \A i \in 1..Len(time) : time[i] # NULL
    /\ \A i, j \in 1..Len(time) : i < j => time[i] < time[j]

\* C7: for a track whose every character has a timestamp, the timestamps
\* strictly increasing, a render at a later currentTime (same override, the
\* complete flag not taken back) never shows a smaller fill percentage, and
\* a render flagged complete at or after the final timestamp shows 100
C7_ProgressMonotone ==
    [][ FullyIncreasing(fill.time) =>
          /\ (fill'.currentTime >= fill.currentTime
                /\ fill'.endTimeOverride = fill.endTimeOverride
                /\ (fill.isComplete => fill'.isComplete))
               => FracLeq(progress(fill), progress(fill'))
          /\ (fill'.isComplete /\ fill'.currentTime >= fill'.time[Len(fill'.time)])
               => FracIs(progress(fill'), 100) ]_vars

\* a render strictly inside a segment of a full, strictly increasing track of
\* the greatest length, with an override past the final timestamp
C7_Witness ==
    /\ op.kind = "render"
    /\ FullyIncreasing(fill.time)
    /\ Len(fill.time) = MaxLen
    /\ fill.endTimeOverride # NULL /\ fill.endTimeOverride > fill.time[Len(fill.time)]
    /\ ~fill.isComplete
    /\ fill.currentTime > fill.time[2]
    /\ \A i \in 1..Len(fill.time) : fill.time[i] # fill.currentTime
    /\ ~FracIs(progress(fill), 0) /\ ~FracIs(progress(fill), 100)

(* ------------- C10: as many timestamps as characters ------------------- *)

\* C10 (as stated): in every state every track, the main track and each
\* ad-lib of every line, has exactly as many timestamps as characters
C10_LengthsMatch ==
    \A i \in 1..Len(syncData) :
        /\ Len(syncData[i].time) = Len(syncData[i].chars)
        /\ \A a \in 1..Len(syncData[i].adlibs) :
              Len(syncData[i].adlibs[a].time) = Len(syncData[i].adlibs[a].chars)

(* ------------- C11: scrub or commit on a zero-character target ---------- *)

\* the active target of the current line has no characters
ZeroCharTarget ==
    /\ HasLine(syncData, currentLine)
    /\ Len(activeChars(syncData, currentLine, syncTarget)) = 0

\* C11 (as stated): a scrub or a commit issued while the active target has
\* zero characters changes no timestamp of any track and changes neither the
\* current line, nor the target, nor the character index
C11_ZeroCharNoOp ==
    [][(op'.kind \in {"scrub", "release"} /\ ZeroCharTarget) =>
          /\ syncData' = syncData
          /\ UNCHANGED <<currentLine, syncTarget, charIdx>>
      ]_vars

(* ------------- C12: the interpolation of a scrub ------------------------ *)

\* the indices below idx of a track that hold a timestamp
SyncedBelow(time, idx) == {j \in 0..(idx - 1) : j < Len(time) /\ time[j + 1] # NULL}

(* C12 - on a scrub to idx: when j is the nearest index below idx with a     *)
(* timestamp and idx - j > 1, every k strictly between j and idx ends with   *)
(* time[k] = time[j] + (time[idx] - time[j]) * (k - j) / (idx - j), an equality *)
(* stated exactly by multiplying through by idx - j; when no index below idx *)
(* has a timestamp, no index below idx is written.                           *)
C12_ScrubInterpolates ==
    [][IsScrubStep =>
        \A old \in {ActiveTrack} : \A new \in {ActiveTrackNext} :
            LET idx == op'.arg
                below == SyncedBelow(old, idx)
            IN  IF below = {}
                THEN \A k \in 0..(idx - 1) : new[k + 1] = old[k + 1]
                ELSE LET j == SetMax(below)
                     IN  /\ new[j + 1] = old[j + 1]
                         /\ idx - j > 1 =>
                               \A k \in (j + 1)..(idx - 1) :
                                  new[k + 1] * (idx - j)
                                    = old[j + 1] * (idx - j)
                                      + (new[idx + 1] - old[j + 1]) * (k - j)
      ]_vars

\* a scrub to the last index of a three-character track has just filled the
\* middle index half way between 1 s and 4 s
C12_Witness ==
    /\ op = Op("scrub", 2)
    /\ HasLine(syncData, currentLine)
    /\ Len(ActiveTrack) = 3
    /\ ActiveTrack[1] = Sec(1)
    /\ ActiveTrack[3] = Sec(4)
    /\ 2 * ActiveTrack[2] = Sec(1) + Sec(4)

(* ------------- C13: forward gap-fill on a loaded track ------------------ *)

\* the step scrubs the track [2.0, null, null, null, 8.0] to index 2 at 5.0 s
ScrubOfLoadedTrack ==
    /\ IsScrubStep
    /\ ActiveTrack = LoadedTrack
    /\ op'.arg = 2
    /\ audioTime = Sec(5)

\* the step is the commit that directly follows a scrub to index 2
CommitAfterScrubTo2 == IsReleaseStep /\ op = Op("scrub", 2)

\* C13 (as stated): scrubbing [2.0, null, null, null, 8.0] to index 2 at 5.0 s
\* sets index 2 to 5.0, and after the following commit the entries that were
\* null, indices 1 and 3, are still null: the scrub leaves them null and the
\* commit does not touch them
C13_Original ==
    [][ /\ ScrubOfLoadedTrack =>
              /\ ActiveTrackNext[3] = Sec(5)
              /\ ActiveTrackNext[2] = NULL
              /\ ActiveTrackNext[4] = NULL
        /\ CommitAfterScrubTo2 =>
              \A i \in {2, 4} : ActiveTrack[i] = NULL => ActiveTrackNext[i] = NULL
      ]_vars

(* C13 - scrubbing [2.0, null, null, null, 8.0] to index 2 at 5.0 s sets     *)
(* index 2 to 5.0, fills index 1 with 3.5 and clears index 4, leaving        *)
(* [2.0, 3.5, 5.0, null, null]; the following commit at release time t        *)
(* leaves [2.0, 3.5, t, null, null]: index 3 is still null, index 1 is not.  *)
C13_ForwardGapFill ==
    [][ /\ ScrubOfLoadedTrack =>
              /\ ActiveTrackNext = <<Sec(2), 35 * Tenth, Sec(5), NULL, NULL>>
              /\ charIdx' = 2
        /\ (CommitAfterScrubTo2 /\ ActiveTrack = <<Sec(2), 35 * Tenth, Sec(5), NULL, NULL>>) =>
              ActiveTrackNext = <<Sec(2), 35 * Tenth, audioTime, NULL, NULL>>
      ]_vars

\* the commit that follows the scrub of the loaded track has just been made
C13_Witness ==
    /\ op = Op("release", 2)
    /\ HasLine(syncData, currentLine)
    /\ ActiveTrack = <<Sec(2), 35 * Tenth, Sec(5), NULL, NULL>>
    /\ audioTime = Sec(5)

(* ------------- C14: when a part counts as synced ------------------------ *)

\* the tracks of the project: the main track and every ad-lib of every line
AllTracks(data) ==
    {[chars |-> data[i].chars, time |-> data[i].time] : i \in 1..Len(data)}
    \cup UNION {
        {[chars |-> data[i].adlibs[a].chars, time |-> data[i].adlibs[a].time]
            : a \in 1..Len(data[i].adlibs)}
        : i \in 1..Len(data)}

\* the timestamp of the last character of a track is set
LastCharTimed(tr) ==
    Len(tr.chars) <= Len(tr.time) /\ tr.time[Len(tr.chars)] # NULL

(* C14 - for every track the editor holds, isPartSynced(chars, time) is true *)
(* exactly when the track has no characters or the timestamp of its last    *)
(* character is non-null, whatever null gaps lie at earlier indices.         *)
C14_PartSyncedIffLastTimed ==
    \A tr \in AllTracks(syncData) :
        isPartSynced(tr.chars, tr.time) <=> (Len(tr.chars) = 0 \/ LastCharTimed(tr))

\* a commit has just found the first line fully synced although its two
\* earlier indices are null, and moved on; the project also holds tracks
\* that are not synced
C14_Witness ==
    /\ op.kind = "release"
    /\ currentLine = 1
    /\ Len(syncData[1].time) = 3
    /\ syncData[1].time[1] = NULL /\ syncData[1].time[2] = NULL
    /\ syncData[1].time[3] # NULL
    /\ isPartSynced(syncData[1].chars, syncData[1].time)
    /\ ~isPartSynced(syncData[2].chars, syncData[2].time)

(* ------------- C15: the start time of a line ---------------------------- *)

\* the non-null timestamps of a line, main track and ad-libs together, each
\* with the place it is stored at
Stamps(line) ==
    {<<0, k, line.time[k]>> : k \in {j \in 1..Len(line.time) : line.time[j] # NULL}}
    \cup UNION {
        {<<a, k, line.adlibs[a].time[k]>>
            : k \in {j \in 1..Len(line.adlibs[a].time) : line.adlibs[a].time[j] # NULL}}
        : a \in 1..Len(line.adlibs)}

(* C15 - for every line, getLineStartTime is the least of the non-null       *)
(* timestamps of its main track and all its ad-lib tracks together, and it   *)
(* is positive infinity exactly when the line has no non-null timestamp.     *)
C15_StartIsMin ==
    \A i \in 1..Len(syncData) :
        \A start \in {getLineStartTime(syncData[i])} :
        \A stamps \in {Stamps(syncData[i])} :
            /\ start = Infinity <=> stamps = {}
            /\ stamps # {} =>
                  /\ \E st \in stamps : st[3] = start
                  /\ \A st \in stamps : start <= st[3]

\* the user has just switched target on a line whose earliest timestamp sits
\* on an ad-lib, below the timestamp of the main track
C15_Witness ==
    /\ op.kind = "target"
    /\ HasLine(syncData, currentLine)
    /\ LET line == LineAt(syncData, currentLine)
       IN  /\ Len(line.adlibs) > 0
           /\ Len(line.time) > 0 /\ line.time[1] # NULL
           /\ getLineStartTime(line) < line.time[1]
           /\ \E a \in 1..Len(line.adlibs) :
                 /\ Len(line.adlibs[a].time) > 0
                 /\ line.adlibs[a].time[1] = getLineStartTime(line)

(* ------------- C16: start and end time of a line ------------------------ *)

IsFinite(t) == t # Infinity /\ t # NegInfinity

(* C16 - for every line, the start time and the end time are finite for the  *)
(* same lines, and when they are finite the start is not after the end.      *)
C16_StartNotAfterEnd ==
    \A i \in 1..Len(syncData) :
        \A start \in {getLineStartTime(syncData[i])} :
        \A end \in {getLineEndTime(syncData[i])} :
            /\ IsFinite(start) <=> IsFinite(end)
            /\ (IsFinite(start) /\ IsFinite(end)) => start <= end

\* a project in which one line, timed on an ad-lib only, starts where it
\* ends, another starts strictly before it ends, and the commit that has
\* just been made is the last write
C16_Witness ==
    /\ op.kind = "release"
    /\ \E i \in 1..Len(syncData) :
          /\ IsFinite(getLineStartTime(syncData[i]))
          /\ getLineStartTime(syncData[i]) < getLineEndTime(syncData[i])
    /\ \E i \in 1..Len(syncData) :
          /\ \A k \in 1..Len(syncData[i].time) : syncData[i].time[k] = NULL
          /\ IsFinite(getLineStartTime(syncData[i]))
          /\ getLineStartTime(syncData[i]) = getLineEndTime(syncData[i])

(* ------------- C17: replay-line ----------------------------------------- *)

\* every timestamp of the line, main track and ad-libs, is null
AllNull(line) ==
    \A tr \in AllTracks(<<line>>) : \A k \in 1..Len(tr.time) : tr.time[k] = NULL

(* C17 - replay-line on the current line sets every timestamp of its main    *)
(* track and of all its ad-libs to null, leaves every other line unchanged,  *)
(* resets the target to main and the character index to 0, and sets the      *)
(* playback position to 3 s before the start time the line had before the    *)
(* clearing, not below 0; when the line had no timestamp the playback        *)
(* position is not changed.                                                  *)
C17_ReplayLine ==
    [][op'.kind = "replay" =>
        \A stamps \in {Stamps(LineAt(syncData, currentLine))} :
            /\ currentLine' = currentLine
            /\ Len(syncData') = Len(syncData)
            /\ AllNull(LineAt(syncData', currentLine))
            /\ \A i \in 1..Len(syncData) : i # currentLine + 1 => syncData'[i] = syncData[i]
            /\ syncTarget' = MainTarget
            /\ charIdx' = 0
            /\ IF stamps = {}
               THEN audioTime' = audioTime
               ELSE \A start \in {SetMin({st[3] : st \in stamps})} :
                      audioTime' = (IF start - Sec(3) > 0 THEN start - Sec(3) ELSE 0)
      ]_vars

\* the second line, which started at 10 s, has just been replayed from 7 s
\* while the first line keeps its timestamps
C17_Witness ==
    /\ op = Op("replay", 1)
    /\ currentLine = 1
    /\ AllNull(syncData[2])
    /\ ~AllNull(syncData[1])
    /\ audioTime = Sec(7)
    /\ syncTarget = MainTarget /\ charIdx = 0

(* ------------- C18: the reset operations are idempotent ----------------- *)

(* C18 - replay-line applied directly after replay-line, and reset-all-      *)
(* timings applied directly after reset-all-timings, change neither the      *)
(* timing data, nor the current line, nor the active target, nor the         *)
(* character index: the second application leaves what the first one left.  *)
C18_ResetIdempotent ==
    [][ /\ (op.kind = "replay" /\ op'.kind = "replay") =>
              UNCHANGED <<syncData, currentLine, syncTarget, charIdx>>
        /\ (op.kind = "reset" /\ op'.kind = "reset") =>
              UNCHANGED <<syncData, currentLine, syncTarget, charIdx>>
      ]_vars

\* replay-line has just been applied to the second line, whose ad-lib was the
\* active target, while the first line is timed: the state a second
\* application starts from
C18_Witness ==
    /\ op = Op("replay", 1)
    /\ currentLine = 1
    /\ Len(syncData[2].adlibs) > 0
    /\ AllNull(syncData[2])
    /\ isLineFullySynced(syncData[1])
    /\ syncTarget = MainTarget /\ charIdx = 0
    /\ audioTime = 0

(* ------------- C19: fill of complete and of unstarted tracks ------------ *)

\* the track has no non-null timestamp
NoStamp(time) == \A i \in 1..Len(time) : time[i] = NULL

\* the first defined timestamp of a track that has one
FirstStamp(time) == time[SetMin({i \in 1..Len(time) : time[i] # NULL})]

(* C19 - the fill percentage is 100 whenever the track is flagged complete,  *)
(* whatever its timestamps and the playback position; when it is not         *)
(* flagged complete the percentage is 0 if the track has no non-null         *)
(* timestamp, and 0 if the playback position is before its first defined     *)
(* timestamp.                                                                *)
C19_CompleteOrUnstarted ==
    /\ fill.isComplete => FracIs(progress(fill), 100)
    /\ (~fill.isComplete /\ NoStamp(fill.time)) => FracIs(progress(fill), 0)
    /\ (~fill.isComplete /\ ~NoStamp(fill.time)
          /\ fill.currentTime < FirstStamp(fill.time)) => FracIs(progress(fill), 0)

\* the track [null, null] of a line whose ad-lib has been sung is rendered
\* flagged complete
C19_Witness ==
    /\ op.kind = "render"
    /\ fill.time = <<NULL, NULL>>
    /\ fill.isComplete
    /\ fill.currentTime > Sec(1)
    /\ FracIs(progress(fill), 100)

(* ------------- C20: what a commit writes -------------------------------- *)

\* the project with the entry idx of the track of `target` on line cl set to t
\* and nothing else touched
WithStamp(data, cl, target, idx, t) ==
    IF target.part = "main"
    THEN [data EXCEPT ![cl + 1].time[idx + 1] = t]
    ELSE [data EXCEPT ![cl + 1].adlibs[target.adlibIndex + 1].time[idx + 1] = t]

(* C20 - a commit at index idx with release time t sets time[idx] = t in the *)
(* track of the active target and changes no other timestamp of any track   *)
(* of any line; in particular every timestamp the preceding scrubs wrote,    *)
(* the interpolated ones included, is still there after the commit.  (On a   *)
(* track without characters idx lies past the end and the entry is added.)   *)
C20_CommitWritesOneStamp ==
    [][IsReleaseStep =>
        \A old \in {ActiveTrack} :
            /\ op'.arg = charIdx
            /\ IF charIdx < Len(old)
               THEN syncData' = WithStamp(syncData, currentLine, syncTarget, charIdx, audioTime)
               ELSE /\ Len(old) = 0 /\ charIdx = 0
                    /\ TargetTime(LineAt(syncData', currentLine), syncTarget) = <<audioTime>>
                    /\ \A i \in 1..Len(syncData) :
                          i # currentLine + 1 => syncData'[i] = syncData[i]
      ]_vars

\* a commit at 10 s has just followed a scrub that interpolated the middle
\* of the three-character track between 1 s and 4 s: the interpolated entry
\* and the first entry are still there
C20_Witness ==
    /\ op = Op("release", 2)
    /\ Len(syncData[1].time) = 3
    /\ syncData[1].time[1] = Sec(1)
    /\ 2 * syncData[1].time[2] = Sec(1) + Sec(4)
    /\ syncData[1].time[3] = Sec(10)

(* ------------- C21: a scrub writes one track only ----------------------- *)

(* C21 - a scrub changes only the track of the active target (the main track *)
(* or the selected ad-lib) of the current line: every other track of that    *)
(* line and every track of every other line keep their timestamps.           *)
C21_ScrubTouchesOneTrack ==
    [][IsScrubStep =>
        /\ currentLine' = currentLine /\ syncTarget' = syncTarget
        /\ syncData' = [syncData EXCEPT ![currentLine + 1] =
                          WithTargetTime(@, syncTarget, ActiveTrackNext)]
      ]_vars

\* a scrub has just written the first ad-lib of a line whose main track and
\* second ad-lib are timed at another time, while the other line is timed too
C21_Witness ==
    /\ op = Op("scrub", 0)
    /\ HasLine(syncData, currentLine)
    /\ syncTarget = AdlibTarget(0)
    /\ LET line == LineAt(syncData, currentLine)
       IN  /\ Len(line.adlibs) = 2
           /\ line.adlibs[1].time = <<audioTime>>
           /\ Len(line.time) = 1 /\ line.time[1] \notin {NULL, audioTime}
           /\ Len(line.adlibs[2].time) = 1 /\ line.adlibs[2].time[1] \notin {NULL, audioTime}
    /\ \E i \in 1..Len(syncData) : i # currentLine + 1 /\ ~AllNull(syncData[i])

(* ------------- C22: what a target switch does --------------------------- *)

\* the step switches the target on the current line: a click on a part, or a
\* commit that moves on to another part of the same line
IsTargetSwitch ==
    /\ currentLine' = currentLine
    /\ \/ op'.kind = "target"
       \/ op'.kind = "release" /\ syncTarget' # syncTarget

\* C22 (as stated): every target switch sets the character index to the last
\* index with a timestamp in the new target's track (0 if there is none) and,
\* when the new target's track has a start time, sets the playback position
\* to 0.1 s before that start time, not below 0
C22_TargetSwitch ==
    [][IsTargetSwitch =>
        \A new \in {ActiveTrackNext} :
            /\ charIdx' = (IF LastNonNull(new) = -1 THEN 0 ELSE LastNonNull(new))
            /\ ~NoStamp(new) =>
                 \A start \in {SetMin({new[k] : k \in {j \in 1..Len(new) : new[j] # NULL}})} :
                    audioTime' = (IF start > Tenth THEN start - Tenth ELSE 0)
      ]_vars

(* ------------- C23: the rewind of an advance outside a group ------------ *)

\* the step is a commit that advances to a next line of another group, or of
\* no group
AdvancesOutsideGroup ==
    /\ IsReleaseStep
    /\ currentLine' = currentLine + 1
    /\ LET finished == LineAt(syncData, currentLine)
           nextLine == LineAt(syncData, currentLine + 1)
       IN  finished.groupId = "" \/ finished.groupId # nextLine.groupId

(* C23 - when a commit advances to a next line that is not in the group of   *)
(* the line just finished, the playback position is moved back by 3 s, not   *)
(* below 0, if the finished line has at least one ad-lib, and is left as it  *)
(* is if the finished line has none.                                         *)
C23_RewindAfterAdlibs ==
    [][AdvancesOutsideGroup =>
        IF Len(LineAt(syncData, currentLine).adlibs) > 0
        THEN audioTime' = (IF audioTime - Sec(3) > 0 THEN audioTime - Sec(3) ELSE 0)
        ELSE audioTime' = audioTime
      ]_vars

\* a commit at 10 s has just finished an ungrouped line with ad-libs and moved
\* on to the next line, 3 s back
C23_Witness ==
    /\ op.kind = "release"
    /\ currentLine = 1
    /\ syncData[1].groupId = ""
    /\ Len(syncData[1].adlibs) > 0
    /\ isLineFullySynced(syncData[1])
    /\ \E a \in 1..Len(syncData[1].adlibs) :
          Len(syncData[1].adlibs[a].time) > 0 /\ syncData[1].adlibs[a].time[1] = Sec(10)
    /\ audioTime = Sec(7)

(* ------------- C24: the scroll anchor ----------------------------------- *)

\* the line of the project with the given id
LineById(data, id) == data[CHOOSE i \in 1..Len(data) : data[i].id = id]

\* the least start time among the lines of group g
EarliestInGroup(data, g) ==
    SetMin({getLineStartTime(data[i]) : i \in {k \in 1..Len(data) : data[k].groupId = g}})

(* C24 - once the anchor effect has run: when the focus line belongs to a    *)
(* group, the anchor is a member of that group whose start time is the       *)
(* earliest of the group; when the focus line is ungrouped the anchor is     *)
(* the focus line; so the anchor is always the focus line or a member of     *)
(* its group.                                                                *)
C24_AnchorFollowsFocus ==
    focusLineId # "" =>
        /\ \E i \in 1..Len(syncData) : syncData[i].id = focusLineId
        /\ \E i \in 1..Len(syncData) : syncData[i].id = anchorLineId
        /\ \A focusLine \in {LineById(syncData, focusLineId)} :
           \A anchorLine \in {LineById(syncData, anchorLineId)} :
              IF focusLine.groupId # ""
              THEN /\ anchorLine.groupId = focusLine.groupId
                   /\ getLineStartTime(anchorLine) = EarliestInGroup(syncData, focusLine.groupId)
              ELSE anchorLineId = focusLineId

\* a frame has just moved the focus to the second member of the group, which
\* starts later than the first: the anchor is the first member
C24_Witness ==
    /\ op.kind = "frame"
    /\ focusLineId = "L2"
    /\ anchorLineId = "L1"
    /\ getLineStartTime(syncData[1]) < getLineStartTime(syncData[2])
    /\ getLineStartTime(syncData[2]) # Infinity

(* ------------- C25: one block of timestamps, index at its end ----------- *)

\* no null entry lies strictly between two non-null entries
Contiguous(time) ==
    \A i, j, k \in 1..Len(time) :
        (i < j /\ j < k /\ time[i] # NULL /\ time[k] # NULL) => time[j] # NULL

(* C25 - in a project that starts with every track all null, after any       *)
(* sequence of scrubs, commits and target switches (and of the resets and    *)
(* line changes of the editor), the indices holding a timestamp form one     *)
(* contiguous range in every track, and the current character index is the   *)
(* last index with a timestamp of the active target's track, or 0 when that  *)
(* track is all null.                                                        *)
C25_ContiguousAndIndexAtEnd ==
    /\ \A tr \in AllTracks(syncData) : Contiguous(tr.time)
    /\ HasLine(syncData, currentLine) =>
          \A last \in {LastNonNull(ActiveTrack)} :
              charIdx = (IF last = -1 THEN 0 ELSE last)

\* a scrub has just left the only timestamp of a three-character track in
\* the middle, the index standing on it
C25_Witness ==
    /\ op = Op("scrub", 1)
    /\ HasLine(syncData, currentLine)
    /\ Len(ActiveTrack) = 3
    /\ ActiveTrack[1] = NULL /\ ActiveTrack[2] # NULL /\ ActiveTrack[3] = NULL
    /\ charIdx = 1

(* ------------- C26: the order of the timestamps of a track -------------- *)

\* the non-null timestamps of the track do not decrease with the index
NonDecreasing(time) ==
    \A i, j \in 1..Len(time) :
        (i < j /\ time[i] # NULL /\ time[j] # NULL) => time[i] <= time[j]

\* the playback position is not smaller than any timestamp stored in the track
NotBeforeStored(time, t) == \A i \in 1..Len(time) : time[i] # NULL => time[i] <= t

\* the track of the target that was active before the step, after the step
WrittenTrackNext == TargetTime(LineAt(syncData', currentLine), syncTarget)

\* C26 (as stated): the timestamps of a track are non-decreasing by index
\* after any sequence of scrubs and commits whose playback time is never
\* smaller than a stored timestamp, and the automatic seeks of target switches
\* and line advances are the only way the order is broken: on a project of
\* one line without ad-libs, where no target switch and no line advance ever
\* takes place, a track in order stays in order
C26_Original ==
    [][ ((IsScrubStep \/ IsReleaseStep)
           /\ Len(syncData) = 1 /\ Len(syncData[1].adlibs) = 0
           /\ NonDecreasing(ActiveTrack))
        => NonDecreasing(WrittenTrackNext) ]_vars

(* C26 - a scrub or a commit whose playback time is not smaller than any     *)
(* timestamp stored in the active track leaves a track that was in           *)
(* non-decreasing order in non-decreasing order.  (A smaller playback time   *)
(* can break the order, and needs no target switch or line advance.)         *)
C26_OrderKeptByLaterTimes ==
    [][ ((IsScrubStep \/ IsReleaseStep)
           /\ NonDecreasing(ActiveTrack)
           /\ NotBeforeStored(ActiveTrack, audioTime))
        => NonDecreasing(WrittenTrackNext) ]_vars

\* a scrub at 8 s has just interpolated between a stored 2 s and the new last
\* entry of a track in which nothing later than 8 s was stored
C26_Witness ==
    /\ op = Op("scrub", 4)
    /\ audioTime = Sec(8)
    /\ ActiveTrack[1] = Sec(2)
    /\ ActiveTrack[5] = Sec(8)
    /\ \A i \in 1..4 : ActiveTrack[i] # NULL /\ ActiveTrack[i] < ActiveTrack[i + 1]

(* ------------- C27: the edit button of a preview line ------------------ *)

\* C27 (as stated): pressing the edit button of a line in preview mode opens
\* sync mode with that line as its current line and clears the timestamps of
\* that line only, whatever the order of the lines' start times is
C27_EditOpensPressedLine ==
    [][ op'.kind = "edit"
        => /\ currentLine' = op'.arg
           /\ syncData' = [syncData EXCEPT ![op'.arg + 1] = ClearedLine(@)] ]_vars

(* ------------- C28: the status of a line during playback --------------- *)

\* the status AnimatedLyricLine gives the line at playback position t
StatusAt(line, effEnds, t) == lineStatus(line, t, IsActiveLine(line, effEnds, t))

C29_FocusIsActive ==
    \A sorted \in {sortedSyncData(syncData)} :
    \A effEnds \in {effectiveLineEndTimes(sorted)} :
    \A activeIds \in {activeLineIds(sorted, effEnds, currentTime)} :
        activeIds # {} => focusLineId \in activeIds

\* a line that is not active at the time last sampled has just been clicked
\* while another line is active: the focus update has put the focus back on
\* the active line
C29_Witness ==
    /\ op.kind = "click"
    /\ \E sorted \in {sortedSyncData(syncData)} :
       \E effEnds \in {effectiveLineEndTimes(sorted)} :
       \E activeIds \in {activeLineIds(sorted, effEnds, currentTime)} :
          /\ sorted[op.arg + 1].id \notin activeIds
          /\ focusLineId \in activeIds
          /\ focusLineId # sorted[op.arg + 1].id

(* ------------- C30: the range of the fill percentage ------------------- *)

\* C30: for every track and timestamp assignment (non-monotonic ones and
\* tracks with null gaps included), every currentTime and every end-time
\* override, the fill percentage lies between 0 and 100, both included
C30_ProgressInRange ==
    \A pr \in {progress(fill)} :
        /\ pr[2] > 0
        /\ FracLeq(<<0, 1>>, pr)
        /\ FracLeq(pr, <<100, 1>>)

\* a render of a track with a null gap whose timestamps decrease with the
\* index, with an end-time override, not flagged complete, part of the last
\* character filled
C30_Witness ==
    /\ op.kind = "render"
    /\ ~fill.isComplete
    /\ fill.endTimeOverride # NULL
    /\ \E i \in 1..Len(fill.time) : fill.time[i] = NULL
    /\ \E i, j \in 1..Len(fill.time) :
          i < j /\ fill.time[i] # NULL /\ fill.time[j] # NULL /\ fill.time[i] > fill.time[j]
    /\ \E pr \in {progress(fill)} :
          /\ ~FracLeq(pr, <<(Len(fill.chars) - 1) * 100, Len(fill.chars)>>)
          /\ ~FracLeq(<<100, 1>>, pr)

====
